---- MODULE Spec2Model ----
(***************************************************************************)
(* Model of the isskin backend: the image letterbox of app/main.py, the    *)
(* clinical-impression normaliser and the agreement/accuracy scorer of     *)
(* tests/comparison/compare_ai_dermatologists.py, and the standalone       *)
(* evaluator of tests/evaluation/evaluate_models.py.                       *)
(*                                                                         *)
(* Text is a sequence of characters, each character a one-element atom     *)
(* ("a", " ", "i_acute" for the accented i, ...).  Rational results        *)
(* (accuracies, rates, kappa) are kept as unreduced fractions [num, den].  *)
(***************************************************************************)
EXTENDS Integers, Sequences, FiniteSets, TLC

VARIABLES
    impression,      \* the argument of the normaliser: [kind, text]
    dx_category,     \* result of normalize_clinical_impression
    binary_label,    \* result of normalize_binary_classification
    npc,             \* position of the normaliser run
    image,           \* letterbox_image: image.size = <<iw, ih>>
    size,            \* letterbox_image: size = <<w, h>>
    new_image,       \* letterbox_image: the returned canvas, or the exception
    lpc,             \* position of the letterbox run
    analysis_df,     \* run_comparison: the rows of analysis_df
    binary_comparison, \* run_comparison: result of compare_binary_classifications
    dx_comparison,   \* run_comparison: result of compare_dx_classifications
    cpc,             \* position of run_comparison
    score_df,        \* calculate_agreement_and_accuracy: the rows of its analysis_df
    score_type,      \* calculate_agreement_and_accuracy: its classification_type
    agreement_result, \* calculate_agreement_and_accuracy: the returned dict
    spc,             \* position of the scorer call
    test_df,         \* run_comparison: the rows of df, the test dataset
    ai_predictions,  \* run_comparison: the list filled by the prediction loop
    outcomes,        \* what each predict_image call met: file, status, exception
    successful_predictions, \* run_comparison: the counter of the loop
    upload,          \* predict: each request's uploaded file
    results,         \* predict: each request's results of the models run so far
    response,        \* predict: each request's returned dict, or its exception
    ppc,             \* position of each predict request
    input_image,     \* predict: each request's preprocessed image
    model_binary,    \* the global binary model loaded at start-up
    model_dx,        \* the global dx model loaded at start-up
    predictor,       \* the image each global model is working on
    evaluation_df,   \* run_evaluation: the test CSV with its 'prediction' column
    predicted,       \* the y_pred lists of evaluate_binary_model / evaluate_dx_model
    binary_results,  \* result of evaluate_binary_model
    dx_results,      \* result of evaluate_dx_model
    epc              \* position in run_evaluation

nvars == <<impression, dx_category, binary_label, npc>>

lvars == <<image, size, new_image, lpc>>

cvars == <<analysis_df, binary_comparison, dx_comparison, cpc>>

svars == <<score_df, score_type, agreement_result, spc>>

rvars == <<test_df, ai_predictions, outcomes, successful_predictions>>

pvars == <<upload, results, response, ppc, input_image, model_binary, model_dx, predictor>>

evars == <<evaluation_df, predicted, binary_results, dx_results, epc>>

vars == <<nvars, lvars, cvars, svars, rvars, pvars, evars>>

----------------------------------------------------------------------------
(* Bounds *)

\* Longest input text, counted in vocabulary tokens.
MaxTokens == 3

\* Largest side of the small input images.
MaxSide == 8

\* Most rows of an analysis dataset.
MaxRecords == 2

\* Most images of a test dataset.
MaxImages == 2

\* Most predict requests in flight.
MaxRequests == 2

\* The side of the model input, size=(640, 640).
YoloSide == 640

----------------------------------------------------------------------------
(* Text helpers: str.lower, str.strip, the `in` operator on strings *)

UpperCase ==
   <<"A","B","C","D","E","F","G","H","I","J","K","L","M","N","O","P","Q","R",
     "S","T","U","V","W","X","Y","Z","I_ACUTE","E_ACUTE","A_TILDE","C_CEDIL">>

LowerCase ==
   <<"a","b","c","d","e","f","g","h","i","j","k","l","m","n","o","p","q","r",
     "s","t","u","v","w","x","y","z","i_acute","e_acute","a_tilde","c_cedil">>

Whitespace == {" ", "\t", "\n", "\r"}

\* A mutant of LowerChar: the text is not lowercased.
LowerCharIdentity(c) == c

\* str.lower on one character.
LowerChar(c) ==
   IF \E i \in 1..Len(UpperCase) : UpperCase[i] = c
   THEN LowerCase[CHOOSE i \in 1..Len(UpperCase) : UpperCase[i] = c]
   ELSE c

\* str.lower
Lower(s) == [i \in 1..Len(s) |-> LowerChar(s[i])]

\* str.strip: drop the leading and the trailing whitespace.
Strip(s) ==
   LET keep == {i \in 1..Len(s) : s[i] \notin Whitespace}
   IN  IF keep = {} THEN <<>>
       ELSE LET lo == CHOOSE i \in keep : \A j \in keep : i <= j
                hi == CHOOSE i \in keep : \A j \in keep : j <= i
            IN  SubSeq(s, lo, hi)

\* Python's `a in b` for strings: a is a contiguous part of b.
IsSubstring(a, b) ==
   \E k \in 0..(Len(b) - Len(a)) : SubSeq(b, k + 1, k + Len(a)) = a

----------------------------------------------------------------------------
(* The tables of IsskinvsDermatologistsComparison *)

dx_categories ==
   <<"ak", "bcc", "df", "lentigo", "melanoma", "nevus",
     "scc", "seborrheic_keratosis", "vasc">>

\* The dict literal, in its declaration (= iteration) order.
clinical_to_dx_mapping ==
   <<
      [term |-> <<"m","e","l","a","n","o","m","a">>,
       dx |-> "melanoma"],
      [term |-> <<"m","e","l","a","n","o","m","a"," ","m","a","l","i","g","n","o">>,
       dx |-> "melanoma"],
      [term |-> <<"m","e","l","a","n","o","m","a"," ","i","n","v","a","s","i","v","o">>,
       dx |-> "melanoma"],
      [term |-> <<"m","e","l","a","n","o","m","a"," ","i","n"," ","s","i","t","u">>,
       dx |-> "melanoma"],
      [term |-> <<"b","a","s","a","l"," ","c","e","l","l"," ","c","a","r","c","i","n","o","m","a">>,
       dx |-> "bcc"],
      [term |-> <<"c","a","r","c","i","n","o","m","a"," ","b","a","s","o","c","e","l","u","l","a","r">>,
       dx |-> "bcc"],
      [term |-> <<"b","c","c">>,
       dx |-> "bcc"],
      [term |-> <<"s","q","u","a","m","o","u","s"," ","c","e","l","l"," ","c","a","r","c","i","n","o","m","a">>,
       dx |-> "scc"],
      [term |-> <<"c","a","r","c","i","n","o","m","a"," ","e","s","p","i","n","o","c","e","l","u","l","a","r">>,
       dx |-> "scc"],
      [term |-> <<"c","a","r","c","i","n","o","m","a"," ","d","e"," ","c","e_acute","l","u","l","a","s"," ","e","s","c","a","m","o","s","a","s">>,
       dx |-> "scc"],
      [term |-> <<"s","c","c">>,
       dx |-> "scc"],
      [term |-> <<"a","c","t","i","n","i","c"," ","k","e","r","a","t","o","s","i","s">>,
       dx |-> "ak"],
      [term |-> <<"q","u","e","r","a","t","o","s","e"," ","a","c","t","i_acute","n","i","c","a">>,
       dx |-> "ak"],
      [term |-> <<"q","u","e","r","a","t","o","s","e"," ","a","c","t","i","n","i","c","a">>,
       dx |-> "ak"],
      [term |-> <<"a","k">>,
       dx |-> "ak"],
      [term |-> <<"n","e","v","u","s">>,
       dx |-> "nevus"],
      [term |-> <<"n","e","v","o">>,
       dx |-> "nevus"],
      [term |-> <<"n","e","v","o"," ","m","e","l","a","n","o","c","i_acute","t","i","c","o">>,
       dx |-> "nevus"],
      [term |-> <<"n","e","v","o"," ","m","e","l","a","n","o","c","i","t","i","c","o">>,
       dx |-> "nevus"],
      [term |-> <<"m","e","l","a","n","o","c","y","t","i","c"," ","n","e","v","u","s">>,
       dx |-> "nevus"],
      [term |-> <<"d","e","r","m","a","t","o","f","i","b","r","o","m","a">>,
       dx |-> "df"],
      [term |-> <<"d","f">>,
       dx |-> "df"],
      [term |-> <<"s","e","b","o","r","r","h","e","i","c"," ","k","e","r","a","t","o","s","i","s">>,
       dx |-> "seborrheic_keratosis"],
      [term |-> <<"q","u","e","r","a","t","o","s","e"," ","s","e","b","o","r","r","e","i","c","a">>,
       dx |-> "seborrheic_keratosis"],
      [term |-> <<"q","u","e","r","a","t","o","s","e"," ","s","e","b","o","r","r","e_acute","i","c","a">>,
       dx |-> "seborrheic_keratosis"],
      [term |-> <<"s","k">>,
       dx |-> "seborrheic_keratosis"],
      [term |-> <<"l","e","n","t","i","g","o">>,
       dx |-> "lentigo"],
      [term |-> <<"l","e","n","t","i","g","o"," ","s","o","l","a","r">>,
       dx |-> "lentigo"],
      [term |-> <<"s","o","l","a","r"," ","l","e","n","t","i","g","o">>,
       dx |-> "lentigo"],
      [term |-> <<"v","a","s","c","u","l","a","r"," ","l","e","s","i","o","n">>,
       dx |-> "vasc"],
      [term |-> <<"l","e","s","a_tilde","o"," ","v","a","s","c","u","l","a","r">>,
       dx |-> "vasc"],
      [term |-> <<"l","e","s","a","o"," ","v","a","s","c","u","l","a","r">>,
       dx |-> "vasc"],
      [term |-> <<"v","a","s","c">>,
       dx |-> "vasc"],
      [term |-> <<"a","n","g","i","o","m","a">>,
       dx |-> "vasc"],
      [term |-> <<"h","e","m","a","n","g","i","o","m","a">>,
       dx |-> "vasc"]
   >>

\* The if/elif chain of keyword lists, in its order.
keyword_patterns ==
   <<
      [terms |-> <<<<"m","e","l","a","n","o","m","a">>,
                   <<"m","e","l","a","n","o","c","i_acute","t","i","c","o"," ","m","a","l","i","g","n","o">>>>,
       dx |-> "melanoma"],
      [terms |-> <<<<"b","a","s","a","l">>,
                   <<"b","c","c">>>>,
       dx |-> "bcc"],
      [terms |-> <<<<"e","s","c","a","m","o","s","a","s">>,
                   <<"e","s","p","i","n","o","c","e","l","u","l","a","r">>,
                   <<"s","c","c">>>>,
       dx |-> "scc"],
      [terms |-> <<<<"a","c","t","i_acute","n","i","c","a">>,
                   <<"a","c","t","i","n","i","c","a">>,
                   <<"a","k">>>>,
       dx |-> "ak"],
      [terms |-> <<<<"n","e","v","o">>,
                   <<"n","e","v","u","s">>,
                   <<"m","e","l","a","n","o","c","i_acute","t","i","c","o"," ","b","e","n","i","g","n","o">>>>,
       dx |-> "nevus"],
      [terms |-> <<<<"d","e","r","m","a","t","o","f","i","b","r","o","m","a">>,
                   <<"d","f">>>>,
       dx |-> "df"],
      [terms |-> <<<<"s","e","b","o","r","r","e","i","c","a">>,
                   <<"s","e","b","o","r","r","e_acute","i","c","a">>,
                   <<"s","k">>>>,
       dx |-> "seborrheic_keratosis"],
      [terms |-> <<<<"l","e","n","t","i","g","o">>,
                   <<"s","o","l","a","r">>>>,
       dx |-> "lentigo"],
      [terms |-> <<<<"v","a","s","c","u","l","a","r">>,
                   <<"a","n","g","i","o","m","a">>,
                   <<"h","e","m","a","n","g","i","o","m","a">>>>,
       dx |-> "vasc"]
   >>

----------------------------------------------------------------------------
(* normalize_clinical_impression, normalize_binary_classification *)

\* The values an impression cell can hold: a string, or a scalar that is not
\* one (None, float NaN, a number).
TextKinds == {"str", "none", "nan", "int"}

\* pd.isna on a scalar.
IsNa(v) == v.kind \in {"none", "nan"}

\* A mutant of NotText: the isinstance test is left out.
NotTextNaOnly(v) == IsNa(v)

\* The guard of line 138: absent, or not a string.
NotText(v) == IsNa(v) \/ v.kind # "str"

\* impression.lower().strip()
Clean(s) == Strip(Lower(s))

\* Indices of the table whose key equals the cleaned text (dict lookup).
DirectIndices(clean) ==
   {i \in 1..Len(clinical_to_dx_mapping) : clinical_to_dx_mapping[i].term = clean}

\* The test of line 150 for one table entry.
FuzzyHit(term, clean) == IsSubstring(term, clean) \/ IsSubstring(clean, term)

\* A mutant of FuzzyIndex: the last matching entry wins.
FuzzyIndexLast(clean) ==
   LET hits == {i \in 1..Len(clinical_to_dx_mapping) :
                   FuzzyHit(clinical_to_dx_mapping[i].term, clean)}
   IN  IF hits = {} THEN 0
       ELSE CHOOSE i \in hits : \A j \in hits : j <= i

\* A mutant of FuzzyIndex: the keys of the benign block of the table are
\* walked before those of the malignant block.
FuzzyIndexBenignFirst(clean) ==
   LET hits == {i \in 1..Len(clinical_to_dx_mapping) :
                   FuzzyHit(clinical_to_dx_mapping[i].term, clean)}
       benign == {i \in hits : clinical_to_dx_mapping[i].dx
                                  \notin {"melanoma", "bcc", "scc", "ak"}}
       first == IF benign # {} THEN benign ELSE hits
   IN  IF hits = {} THEN 0
       ELSE CHOOSE i \in first : \A j \in first : i <= j

\* The loop of lines 149-151: the first entry, in iteration order, that
\* passes the test; 0 when the loop ends without returning.
FuzzyIndex(clean) ==
   LET hits == {i \in 1..Len(clinical_to_dx_mapping) :
                   FuzzyHit(clinical_to_dx_mapping[i].term, clean)}
   IN  IF hits = {} THEN 0
       ELSE CHOOSE i \in hits : \A j \in hits : i <= j

\* any(term in impression_clean for term in [...]) for one rule.
PatternHit(rule, clean) ==
   \E t \in 1..Len(rule.terms) : IsSubstring(rule.terms[t], clean)

\* A mutant of PatternIndex: the chain is walked from its last rule.
PatternIndexReversed(clean) ==
   LET hits == {r \in 1..Len(keyword_patterns) : PatternHit(keyword_patterns[r], clean)}
   IN  IF hits = {} THEN 0
       ELSE CHOOSE r \in hits : \A q \in hits : q <= r

\* The if/elif chain of lines 154-171: the first rule that matches, 0 if none.
PatternIndex(clean) ==
   LET hits == {r \in 1..Len(keyword_patterns) : PatternHit(keyword_patterns[r], clean)}
   IN  IF hits = {} THEN 0
       ELSE CHOOSE r \in hits : \A q \in hits : r <= q

\* A mutant of NormalizeText: no match returns the cleaned text itself.
NormalizeTextEcho(text) ==
   LET clean == Clean(text)
       direct == DirectIndices(clean)
       fuzzy == FuzzyIndex(clean)
       pattern == PatternIndex(clean)
   IN  IF direct # {}
       THEN clinical_to_dx_mapping[CHOOSE i \in direct : TRUE].dx
       ELSE IF fuzzy # 0
       THEN clinical_to_dx_mapping[fuzzy].dx
       ELSE IF pattern # 0
       THEN keyword_patterns[pattern].dx
       ELSE "other"

\* Lines 141-173: the three tiers on a string.
NormalizeText(text) ==
   LET clean == Clean(text)
       direct == DirectIndices(clean)
       fuzzy == FuzzyIndex(clean)
       pattern == PatternIndex(clean)
   IN  IF direct # {}
       THEN clinical_to_dx_mapping[CHOOSE i \in direct : TRUE].dx
       ELSE IF fuzzy # 0
       THEN clinical_to_dx_mapping[fuzzy].dx
       ELSE IF pattern # 0
       THEN keyword_patterns[pattern].dx
       ELSE "unknown"

\* normalize_clinical_impression.  A value that passes the guard without
\* being a string has no .lower(): Python raises AttributeError.
normalize_clinical_impression(v) ==
   IF NotText(v) THEN "unknown"
   ELSE IF v.kind # "str" THEN "AttributeError"
   ELSE NormalizeText(v.text)

\* A mutant of malignant_categories: 'ak' is left out.
malignant_categories_no_ak == {"melanoma", "bcc", "scc"}

malignant_categories == {"melanoma", "bcc", "scc", "ak"}

\* normalize_binary_classification
normalize_binary_classification(v) ==
   LET dx == normalize_clinical_impression(v)
   IN  IF dx = "AttributeError" THEN "AttributeError"
       ELSE IF dx = "unknown" THEN "unknown"
       ELSE IF dx \in malignant_categories THEN "malignant"
       ELSE "benign"

----------------------------------------------------------------------------
(* The normaliser applied to one impression *)

\* The words the bounded inputs are built from.
Vocabulary ==
   <<
      <<"M","e","l","a","n","o","m","a">>,
      <<" ">>,
      <<"m","a","l","i","g","n","o">>,
      <<"q","u","e","r","a","t","o","s","e">>,
      <<"a","c","t","i_acute","n","i","c","a">>,
      <<"n","e","v","o">>,
      <<"b","a","s","a","l">>,
      <<"x","y","z","-","u","n","m","a","p","p","a","b","l","e">>
   >>

RECURSIVE Concat(_)
\* The characters of a sequence of vocabulary tokens.
Concat(toks) ==
   IF toks = <<>> THEN <<>> ELSE Vocabulary[Head(toks)] \o Concat(Tail(toks))

TokenSeqs == UNION {[1..n -> 1..Len(Vocabulary)] : n \in 0..MaxTokens}

\* The names normalize_clinical_impression can return (dx_categories and
\* 'unknown'), each with its characters.
CategoryNames ==
   <<
      <<"ak", <<"a","k">>>>,
      <<"bcc", <<"b","c","c">>>>,
      <<"df", <<"d","f">>>>,
      <<"lentigo", <<"l","e","n","t","i","g","o">>>>,
      <<"melanoma", <<"m","e","l","a","n","o","m","a">>>>,
      <<"nevus", <<"n","e","v","u","s">>>>,
      <<"scc", <<"s","c","c">>>>,
      <<"seborrheic_keratosis", <<"s","e","b","o","r","r","h","e","i","c","_","k","e","r","a","t","o","s","i","s">>>>,
      <<"vasc", <<"v","a","s","c">>>>,
      <<"unknown", <<"u","n","k","n","o","w","n">>>>
   >>

\* The characters of a returned name.
CategoryText(name) ==
   CategoryNames[CHOOSE i \in 1..Len(CategoryNames) : CategoryNames[i][1] = name][2]

\* The inputs: texts of vocabulary words, the returned names themselves, the
\* key 'sk' of the table, and the values that are not strings.
Impressions ==
   {[kind |-> "str", text |-> Concat(t)] : t \in TokenSeqs}
   \cup {[kind |-> "str", text |-> CategoryNames[i][2]] : i \in 1..Len(CategoryNames)}
   \cup {[kind |-> "str", text |-> <<"s","k">>]}
   \cup {[kind |-> k, text |-> <<>>] : k \in TextKinds \ {"str"}}

NInit ==
   /\ impression \in Impressions
   /\ dx_category = "none"
   /\ binary_label = "none"
   /\ npc = "category"

\* A call of normalize_clinical_impression(impression).
NormalizeCategory ==
   /\ npc = "category"
   /\ dx_category' = normalize_clinical_impression(impression)
   /\ npc' = "binary"
   /\ UNCHANGED <<impression, binary_label, lvars, cvars, svars, rvars, pvars, evars>>

\* A call of normalize_binary_classification(impression).
NormalizeBinary ==
   /\ npc = "binary"
   /\ binary_label' = normalize_binary_classification(impression)
   /\ npc' = "done"
   /\ UNCHANGED <<impression, dx_category, lvars, cvars, svars, rvars, pvars, evars>>

----------------------------------------------------------------------------
(* letterbox_image of app/main.py                                          *)
(*                                                                         *)
(* The scale and the products are Python floats (IEEE doubles).  For       *)
(* positive integers a, b, c the value int(c * (a / b)) is the exact       *)
(* floor of c*a/b except when c*a/b is an integer n, the quotient a/b was  *)
(* rounded down, and the error carried into the product exceeds half the   *)
(* spacing of the doubles below n: then the product is below n and int     *)
(* truncates it to n - 1.  FloatScaled computes this with integers.        *)

\* 2^n for n in 0..30, read from a table.
PowersOfTwo ==
   <<1, 2, 4, 8, 16, 32, 64, 128, 256, 512, 1024, 2048, 4096, 8192, 16384,
     32768, 65536, 131072, 262144, 524288, 1048576, 2097152, 4194304,
     8388608, 16777216, 33554432, 67108864, 134217728, 268435456, 536870912,
     1073741824>>

Pow2(n) == PowersOfTwo[n + 1]

RECURSIVE FloorLog2Up(_, _, _)
\* For a >= b: the e >= 0 with 2^e * b <= a < 2^(e+1) * b.
FloorLog2Up(a, b, e) ==
   IF a >= 2 * b * Pow2(e) THEN FloorLog2Up(a, b, e + 1) ELSE e

RECURSIVE FloorLog2Down(_, _, _)
\* For a < b: the e < 0 with 2^e * b <= a < 2^(e+1) * b, found as -n.
FloorLog2Down(a, b, n) ==
   IF a * Pow2(n) < b THEN FloorLog2Down(a, b, n + 1) ELSE 0 - n

\* The binary exponent of the double nearest a / b.
FloorLog2(a, b) ==
   IF a >= b THEN FloorLog2Up(a, b, 0) ELSE FloorLog2Down(a, b, 1)

RECURSIVE ShiftMod(_, _, _)
\* (r * 2^k) mod b for r < b < 2^15, sixteen bits at a time.
ShiftMod(r, k, b) ==
   IF k <= 16 THEN (r * Pow2(k)) % b
   ELSE ShiftMod((r * 65536) % b, k - 16, b)

IsPow2(n) == \E k \in 0..30 : Pow2(k) = n

\* A mutant of FloatScaled: the product is rounded to the nearest integer.
FloatScaledRound(c, a, b) == (2 * c * a + b) \div (2 * b)

\* int(c * (a / b)) on doubles, for integers a, b, c >= 1.
FloatScaled(c, a, b) ==
   IF (c * a) % b # 0 THEN (c * a) \div b
   ELSE LET n == (c * a) \div b
            e == FloorLog2(a, b)
            r == ShiftMod(a % b, 52 - e, b)
            bigE == FloorLog2(n, 1)
        IN  IF r = 0 \/ 2 * r > b THEN n
            ELSE IF c * r * (IF IsPow2(n) THEN 4 ELSE 2) > b * Pow2(bigE - e)
            THEN n - 1
            ELSE n

\* Lines 34-36: scale = min(w / iw, h / ih); nw, nh = int(iw * scale), int(ih * scale).
\* w/iw <= h/ih exactly when w*ih <= h*iw (rounding is monotone).
ScaledSize(iw, ih, w, h) ==
   IF w * ih <= h * iw
   THEN <<FloatScaled(iw, w, iw), FloatScaled(ih, w, iw)>>
   ELSE <<FloatScaled(iw, h, ih), FloatScaled(ih, h, ih)>>

\* letterbox_image pasting at the top left corner instead of line 40's
\* centred offsets.
letterbox_image_top_left(img, target) ==
   IF img[1] = 0 \/ img[2] = 0
   THEN [status |-> "ZeroDivisionError", canvas |-> <<0, 0>>,
         content |-> <<0, 0>>, offset |-> <<0, 0>>]
   ELSE LET n == ScaledSize(img[1], img[2], target[1], target[2])
        IN  IF n[1] < 1 \/ n[2] < 1
            THEN [status |-> "ValueError", canvas |-> <<0, 0>>,
                  content |-> n, offset |-> <<0, 0>>]
            ELSE [status |-> "ok", canvas |-> target, content |-> n,
                  offset |-> <<0, 0>>]

\* letterbox_image with the division of line 34 guarded for the width only.
letterbox_image_width_only(img, target) ==
   IF img[1] = 0
   THEN [status |-> "ZeroDivisionError", canvas |-> <<0, 0>>,
         content |-> <<0, 0>>, offset |-> <<0, 0>>]
   ELSE [status |-> "ok", canvas |-> target,
         content |-> IF img[2] = 0 THEN <<target[1], 0>>
                     ELSE ScaledSize(img[1], img[2], target[1], target[2]),
         offset |-> <<0, 0>>]

\* letterbox_image(image, size).  A zero width or height divides by zero in
\* line 34; Image.resize refuses a size with a side below 1 (ValueError).
letterbox_image(img, target) ==
   LET iw == img[1]
       ih == img[2]
       w == target[1]
       h == target[2]
   IN  IF iw = 0 \/ ih = 0
       THEN [status |-> "ZeroDivisionError", canvas |-> <<0, 0>>,
             content |-> <<0, 0>>, offset |-> <<0, 0>>]
       ELSE LET n == ScaledSize(iw, ih, w, h)
            IN  IF n[1] < 1 \/ n[2] < 1
                THEN [status |-> "ValueError", canvas |-> <<0, 0>>,
                      content |-> n, offset |-> <<0, 0>>]
                ELSE [status |-> "ok", canvas |-> <<w, h>>, content |-> n,
                      offset |-> <<(w - n[1]) \div 2, (h - n[2]) \div 2>>]

\* Widths and heights of the input images: every small one, and a few
\* around the 640 of the target.
ImageSides == (0..MaxSide) \cup {77, 640, 641, 1280}

\* size: the (640, 640) of preprocess_image, and small targets.
TargetSizes == {<<YoloSide, YoloSide>>, <<4, 4>>, <<4, 2>>, <<3, 5>>}

LInit ==
   /\ image \in ImageSides \X ImageSides
   /\ size \in TargetSizes
   /\ new_image = [status |-> "none", canvas |-> <<0, 0>>,
                   content |-> <<0, 0>>, offset |-> <<0, 0>>]
   /\ lpc = "letterbox"

\* A call of letterbox_image(image, size).
Letterbox ==
   /\ lpc = "letterbox"
   /\ new_image' = letterbox_image(image, size)
   /\ lpc' = "done"
   /\ UNCHANGED <<image, size, nvars, cvars, svars, rvars, pvars, evars>>


----------------------------------------------------------------------------
(* The agreement and accuracy scorer of compare_ai_dermatologists.py       *)
(*                                                                         *)
(* A dict is a sequence of <<key, value>> pairs in insertion order.  A     *)
(* float result is an unreduced fraction [num, den]; FracEq compares two   *)
(* fractions by value.                                                     *)

Frac(n, d) == [num |-> n, den |-> d]

FracEq(a, b) == a.num * b.den = b.num * a.den

\* 1 - a
FracComplement(a) == Frac(a.den - a.num, a.den)

\* a - b
FracMinus(a, b) == Frac(a.num * b.den - b.num * a.den, a.den * b.den)

\* key in dict
HasKey(dict, key) == \E i \in 1..Len(dict) : dict[i][1] = key

\* dict[key]
DictGet(dict, key) == dict[CHOOSE i \in 1..Len(dict) : dict[i][1] = key][2]

\* max(dict.keys(), key=dict.get): the first key that holds the largest value.
ArgMax(dict) ==
   LET best == {i \in 1..Len(dict) : \A j \in 1..Len(dict) : dict[j][2] <= dict[i][2]}
   IN  dict[CHOOSE i \in best : \A j \in best : i <= j][1]

\* The failed prediction: predict_image returned None.
NoPrediction == [isnull |-> TRUE, binary_prediction |-> <<>>, dx_prediction |-> <<>>]

\* response.json() of a successful call.
Prediction(bin, dx) == [isnull |-> FALSE, binary_prediction |-> bin, dx_prediction |-> dx]

binary_mapping == {"malignant", "benign"}

\* pd.notna on a ground-truth cell; "nan" is the empty CSV cell.
NotNa(cell) == cell # "nan"

\* Lines 311-323: the class of a row's binary prediction, 0 (benign) when
\* the prediction is missing or lacks a key.
BinaryPredClass(row) ==
   IF row.ai_prediction.isnull THEN "benign"
   ELSE LET binary_pred == row.ai_prediction.binary_prediction
        IN  IF HasKey(binary_pred, "malignant") /\ HasKey(binary_pred, "benign")
            THEN IF DictGet(binary_pred, "malignant") > DictGet(binary_pred, "benign")
                 THEN "malignant" ELSE "benign"
            ELSE "benign"

HasMappedTruth(row) == row.ground_truth_binary \in binary_mapping

\* A mutant of BinaryAccuracyRows: a row without a prediction is dropped.
BinaryAccuracyRowsDropNull(df) ==
   LET Kept(row) == HasMappedTruth(row) /\ ~row.ai_prediction.isnull
   IN  SelectSeq(df, Kept)

\* Lines 305-308: the rows that enter y_true (and y_pred).
BinaryAccuracyRows(df) == SelectSeq(df, HasMappedTruth)

\* calculate_isskin_accuracy_binary
calculate_isskin_accuracy_binary(df) ==
   LET rows == BinaryAccuracyRows(df)
       Hit(row) == BinaryPredClass(row) = row.ground_truth_binary
   IN  IF Len(rows) = 0 THEN Frac(0, 1)
       ELSE Frac(Cardinality({i \in 1..Len(rows) : Hit(rows[i])}), Len(rows))

\* Lines 338-347: the class of a row's dx prediction.
DxPredClass(row) ==
   IF row.ai_prediction.isnull THEN "unknown"
   ELSE IF row.ai_prediction.dx_prediction # <<>>
        THEN ArgMax(row.ai_prediction.dx_prediction)
        ELSE "unknown"

\* A mutant of DxAccuracyRows: a row without a dx class is kept.
DxAccuracyRowsKeepUnknown(df) ==
   LET Kept(row) == NotNa(row.ground_truth_dx)
   IN  SelectSeq(df, Kept)

\* Lines 334-352: the rows that enter y_true (and y_pred).
DxAccuracyRows(df) ==
   LET Kept(row) == NotNa(row.ground_truth_dx) /\ DxPredClass(row) # "unknown"
   IN  SelectSeq(df, Kept)

\* calculate_isskin_accuracy_dx
calculate_isskin_accuracy_dx(df) ==
   LET rows == DxAccuracyRows(df)
       Hit(row) == DxPredClass(row) = row.ground_truth_dx
   IN  IF Len(rows) = 0 THEN Frac(0, 1)
       ELSE Frac(Cardinality({i \in 1..Len(rows) : Hit(rows[i])}), Len(rows))

\* Lines 268-286: one entry of isskin_binary_preds.
IsskinBinaryPred(row) ==
   IF row.ai_prediction.isnull THEN "unknown"
   ELSE LET binary_pred == row.ai_prediction.binary_prediction
        IN  IF HasKey(binary_pred, "malignant") /\ HasKey(binary_pred, "benign")
            THEN IF DictGet(binary_pred, "malignant") > DictGet(binary_pred, "benign")
                 THEN "malignant" ELSE "benign"
            ELSE "unknown"

\* Lines 268-294: one entry of isskin_dx_preds.
IsskinDxPred(row) ==
   IF row.ai_prediction.isnull THEN "unknown"
   ELSE IF row.ai_prediction.dx_prediction # <<>>
        THEN ArgMax(row.ai_prediction.dx_prediction)
        ELSE "unknown"

\* extract_isskin_predictions
extract_isskin_predictions(df) ==
   <<[i \in 1..Len(df) |-> IsskinBinaryPred(df[i])],
     [i \in 1..Len(df) |-> IsskinDxPred(df[i])]>>

\* cohen_kappa_score(y1, y2) = 1 - n*D / (n^2 - S), with n the number of
\* pairs, D the pairs that differ and S the sum over the labels of
\* (occurrences in y1) * (occurrences in y2).  With a single label on both
\* sides the quotient is 0/0: nan, and no exception.
cohen_kappa_score(y1, y2) ==
   LET n == Len(y1)
       labels == {y1[i] : i \in 1..n} \cup {y2[i] : i \in 1..n}
       Occ(y, l) == Cardinality({i \in 1..n : y[i] = l})
       d == Cardinality({i \in 1..n : y1[i] # y2[i]})
       RECURSIVE Sum(_)
       Sum(ls) == IF ls = {} THEN 0
                  ELSE LET l == CHOOSE x \in ls : TRUE
                       IN  Occ(y1, l) * Occ(y2, l) + Sum(ls \ {l})
       s == Sum(labels)
   IN  IF n * n = s THEN [nan |-> TRUE, num |-> 0, den |-> 1]
       ELSE [nan |-> FALSE, num |-> n * n - s - n * d, den |-> n * n - s]

\* The elements of s at the increasing positions idx.
RECURSIVE Pick(_, _)
Pick(s, idx) ==
   IF idx = {} THEN <<>>
   ELSE LET lo == CHOOSE i \in idx : \A j \in idx : i <= j
        IN  <<s[lo]>> \o Pick(s, idx \ {lo})

\* A mutant of AgreementValidIndices: only the AI side has to be resolved.
AgreementValidIndicesAiOnly(isskin_preds, doctor_preds) ==
   {i \in 1..Len(isskin_preds) : isskin_preds[i] # "unknown"}

\* Every position, as if lines 383-387 did not filter.
AgreementValidIndicesAll(isskin_preds, doctor_preds) ==
   1..Len(isskin_preds)

\* Lines 383-387: the positions where both sides made a prediction.
AgreementValidIndices(isskin_preds, doctor_preds) ==
   {i \in 1..Len(isskin_preds) :
       isskin_preds[i] # "unknown" /\ doctor_preds[i] # "unknown"}

\* The doctor's positions without the test for 'unknown'.
DoctorValidIndicesKeepUnknown(doctor_preds, ground_truth) ==
   {i \in 1..Len(doctor_preds) : NotNa(ground_truth[i])}

\* Lines 367-370: the positions that enter the doctor accuracy.
DoctorValidIndices(doctor_preds, ground_truth) ==
   {i \in 1..Len(doctor_preds) :
       doctor_preds[i] # "unknown" /\ NotNa(ground_truth[i])}

\* calculate_agreement_and_accuracy
calculate_agreement_and_accuracy(isskin_preds, doctor_preds, ground_truth, df, classification_type) ==
   LET isskin_accuracy ==
          IF classification_type = "binary"
          THEN calculate_isskin_accuracy_binary(df)
          ELSE calculate_isskin_accuracy_dx(df)
       doctor_valid_indices == DoctorValidIndices(doctor_preds, ground_truth)
       doctor_accuracy ==
          IF Cardinality(doctor_valid_indices) > 0
          THEN Frac(Cardinality({i \in doctor_valid_indices :
                                    doctor_preds[i] = ground_truth[i]}),
                    Cardinality(doctor_valid_indices))
          ELSE Frac(0, 1)
       agreement_valid_indices == AgreementValidIndices(isskin_preds, doctor_preds)
       nvalid == Cardinality(agreement_valid_indices)
       isskin_agreement_filtered == Pick(isskin_preds, agreement_valid_indices)
       doctor_agreement_filtered == Pick(doctor_preds, agreement_valid_indices)
       \* sum(agreements)
       nagree == Cardinality({i \in agreement_valid_indices :
                                 isskin_preds[i] = doctor_preds[i]})
       agreement_rate == IF nvalid > 0 THEN Frac(nagree, nvalid) ELSE Frac(0, 1)
       kappa ==
          IF nvalid > 0
          THEN cohen_kappa_score(isskin_agreement_filtered, doctor_agreement_filtered)
          ELSE [nan |-> FALSE, num |-> 0, den |-> 1]
   IN  [status |-> "ok",
        total_isskin_predictions |->
           Cardinality({i \in 1..Len(isskin_preds) : isskin_preds[i] # "unknown"}),
        total_doctor_predictions |-> Cardinality(doctor_valid_indices),
        total_comparable_cases |-> nvalid,
        agreement_rate |-> agreement_rate,
        disagreement_rate |-> FracComplement(agreement_rate),
        cohen_kappa |-> kappa,
        isskin_accuracy |-> isskin_accuracy,
        doctor_accuracy |-> doctor_accuracy,
        accuracy_difference |-> FracMinus(isskin_accuracy, doctor_accuracy),
        agreements |-> IF nvalid > 0 THEN nvalid - nagree ELSE 0,
        disagreements |-> IF nvalid > 0 THEN nagree ELSE 0]

\* What a call that raised leaves in place of its result.
Raised(exception) == [status |-> exception]

\* The impressions that occur in the bounded analysis rows: 'melanoma',
\* 'nevo' and 'xyz-unmappable'.
ImpressionTexts ==
   {<<"m","e","l","a","n","o","m","a">>,
    <<"n","e","v","o">>,
    <<"x","y","z","-","u","n","m","a","p","p","a","b","l","e">>}

\* normalize_binary_classification on each of them (lines 432-435).
DoctorBinary ==
   [t \in ImpressionTexts |->
      normalize_binary_classification([kind |-> "str", text |-> t])]

\* normalize_clinical_impression on each of them (lines 467-470).
DoctorDx ==
   [t \in ImpressionTexts |->
      normalize_clinical_impression([kind |-> "str", text |-> t])]

\* compare_binary_classifications: its 'overall_comparison'.  A DataFrame
\* built from no rows has no columns, and line 428 raises KeyError.
compare_binary_classifications(df) ==
   IF df = <<>> THEN Raised("KeyError")
   ELSE calculate_agreement_and_accuracy(
           extract_isskin_predictions(df)[1],
           [i \in 1..Len(df) |-> DoctorBinary[df[i].clinical_impression]],
           [i \in 1..Len(df) |-> df[i].ground_truth_binary],
           df, "binary")

\* compare_dx_classifications: its 'overall_comparison'.
compare_dx_classifications(df) ==
   IF df = <<>> THEN Raised("KeyError")
   ELSE calculate_agreement_and_accuracy(
           extract_isskin_predictions(df)[2],
           [i \in 1..Len(df) |-> DoctorDx[df[i].clinical_impression]],
           [i \in 1..Len(df) |-> df[i].ground_truth_dx],
           df, "dx")

\* The (binary, dx) ground truth of an image; "nan" is an empty cell.
GroundTruths ==
   {<<"malignant", "melanoma">>, <<"benign", "nevus">>, <<"nan", "nan">>}

\* The values of the ai_prediction column.
AiPredictions ==
   {NoPrediction,
    Prediction(<<<<"benign", 30>>, <<"malignant", 70>>>>,
               <<<<"melanoma", 60>>, <<"nevus", 40>>>>),
    Prediction(<<<<"benign", 70>>, <<"malignant", 30>>>>,
               <<<<"melanoma", 20>>, <<"nevus", 80>>>>),
    Prediction(<<<<"benign", 50>>, <<"malignant", 50>>>>,
               <<<<"melanoma", 50>>, <<"nevus", 50>>>>),
    Prediction(<<>>, <<>>)}

\* The rows create_analysis_dataset can append.
AnalysisRows ==
   {[ground_truth_binary |-> g[1], ground_truth_dx |-> g[2],
     clinical_impression |-> t, ai_prediction |-> p] :
       g \in GroundTruths, t \in ImpressionTexts, p \in AiPredictions}

NoResult == [status |-> "none"]

CInit ==
   /\ analysis_df \in UNION {[1..n -> AnalysisRows] : n \in 0..MaxRecords}
   /\ binary_comparison = NoResult
   /\ dx_comparison = NoResult
   /\ cpc = "binary"

\* Line 524: binary_comparison = self.compare_binary_classifications(analysis_df);
\* an exception leaves run_comparison through its except clause.
CompareBinary ==
   /\ cpc = "binary"
   /\ binary_comparison' = compare_binary_classifications(analysis_df)
   /\ cpc' = IF binary_comparison'.status = "ok" THEN "dx" ELSE "raised"
   /\ UNCHANGED <<analysis_df, dx_comparison, nvars, lvars, svars, rvars, pvars, evars>>

\* Line 527: dx_comparison = self.compare_dx_classifications(analysis_df)
CompareDx ==
   /\ cpc = "dx"
   /\ dx_comparison' = compare_dx_classifications(analysis_df)
   /\ cpc' = IF dx_comparison'.status = "ok" THEN "done" ELSE "raised"
   /\ UNCHANGED <<analysis_df, binary_comparison, nvars, lvars, svars, rvars, pvars, evars>>

----------------------------------------------------------------------------
(* calculate_agreement_and_accuracy called on its own arguments *)

\* Ground truths of the scorer's rows: those of GroundTruths and one whose
\* binary label is not a key of binary_mapping.
ScoreTruths == GroundTruths \cup {<<"indeterminate", "melanoma">>}

\* The ai_prediction values of the scorer's rows.
ScorePredictions ==
   {NoPrediction,
    Prediction(<<<<"benign", 30>>, <<"malignant", 70>>>>,
               <<<<"melanoma", 60>>, <<"nevus", 40>>>>),
    Prediction(<<<<"benign", 70>>, <<"malignant", 30>>>>,
               <<<<"melanoma", 20>>, <<"nevus", 80>>>>)}

ScoreRows ==
   {[ground_truth_binary |-> g[1], ground_truth_dx |-> g[2],
     clinical_impression |-> t, ai_prediction |-> p] :
       g \in ScoreTruths, t \in ImpressionTexts, p \in ScorePredictions}

\* The three lists a caller passes besides analysis_df (lines 428-441 for
\* 'binary', 463-476 for 'dx'): AI labels, doctor labels, ground truth.
ScoreArguments(rows, type) ==
   IF type = "binary"
   THEN <<extract_isskin_predictions(rows)[1],
          [i \in 1..Len(rows) |-> DoctorBinary[rows[i].clinical_impression]],
          [i \in 1..Len(rows) |-> rows[i].ground_truth_binary]>>
   ELSE <<extract_isskin_predictions(rows)[2],
          [i \in 1..Len(rows) |-> DoctorDx[rows[i].clinical_impression]],
          [i \in 1..Len(rows) |-> rows[i].ground_truth_dx]>>

\* calculate_agreement_and_accuracy on the lists of some rows.
ScoreOf(rows, type) ==
   LET a == ScoreArguments(rows, type)
   IN  calculate_agreement_and_accuracy(a[1], a[2], a[3], rows, type)

SInit ==
   /\ score_df \in UNION {[1..n -> ScoreRows] : n \in 0..MaxRecords}
   /\ score_type \in {"binary", "dx"}
   /\ agreement_result = NoResult
   /\ spc = "call"

\* Lines 359-423, one call.
Score ==
   /\ spc = "call"
   /\ agreement_result' = ScoreOf(score_df, score_type)
   /\ spc' = "done"
   /\ UNCHANGED <<score_df, score_type, nvars, lvars, cvars, rvars, pvars, evars>>

----------------------------------------------------------------------------
(* run_comparison: the prediction loop, the analysis dataset, the comparisons *)

\* An empty CSV cell.
NaCell == [kind |-> "nan", text |-> <<>>]

Cell(t) == [kind |-> "str", text |-> t]

\* The three impression cells of an image: none filled (the second one
\* blank, '  '), only the first ('melanoma'), the second and the third
\* ('nevo', 'xyz-unmappable'), or all three.
ImpressionColumns ==
   LET first == Cell(<<"m","e","l","a","n","o","m","a">>)
       second == Cell(<<"n","e","v","o">>)
       third == Cell(<<"x","y","z","-","u","n","m","a","p","p","a","b","l","e">>)
       blank == Cell(<<" ", " ">>)
   IN  {<<NaCell, blank, NaCell>>, <<first, blank, NaCell>>,
        <<NaCell, second, third>>, <<first, second, third>>}

\* The rows of the test CSV (load_test_data), without the image name.
ImageRows ==
   {[binary |-> g[1], dx |-> g[2],
     clinical_impression_1 |-> c[1], clinical_impression_2 |-> c[2],
     clinical_impression_3 |-> c[3]] :
       g \in {<<"malignant", "melanoma">>, <<"benign", "nevus">>},
       c \in ImpressionColumns}

\* What a predict_image call can meet: the file is missing, the API answers
\* with a status other than 200, requests.post raises (connection error,
\* timeout after 30 s), or the API answers 200.
Outcomes == {"missing", "http_error", "exception", "ok"}

\* response.json() of the API.
ApiResponses ==
   {Prediction(<<<<"benign", 30>>, <<"malignant", 70>>>>,
               <<<<"melanoma", 60>>, <<"nevus", 40>>>>)}

\* predict_image without the test of line 226: the body of any answer is
\* returned.
predict_image_any_status(outcome, json) ==
   IF outcome = "missing" THEN NoPrediction
   ELSE IF outcome = "exception" THEN NoPrediction
   ELSE json

\* predict_image: None unless the file exists, no exception is raised and
\* the status is 200.
predict_image(outcome, json) ==
   IF outcome = "missing" THEN NoPrediction
   ELSE IF outcome = "exception" THEN NoPrediction
   ELSE IF outcome = "ok" THEN json
   ELSE NoPrediction

\* Line 512: prediction is not None
IsSuccessful(prediction) == ~prediction.isnull

\* Line 516: df['ai_prediction'] = ai_predictions
WithPredictions(rows, preds) ==
   [i \in 1..Len(rows) |->
      [binary |-> rows[i].binary, dx |-> rows[i].dx,
       clinical_impression_1 |-> rows[i].clinical_impression_1,
       clinical_impression_2 |-> rows[i].clinical_impression_2,
       clinical_impression_3 |-> rows[i].clinical_impression_3,
       ai_prediction |-> preds[i]]]

\* Line 248 without its second test: a blank cell is kept.
HasImpressionNotNa(cell) == ~IsNa(cell)

\* Line 248: pd.notna(clinical_impression) and str(clinical_impression).strip() != ''
HasImpression(cell) == ~IsNa(cell) /\ Strip(cell.text) # <<>>

\* Lines 243-256: the analyses of one row, in column order.
RowAnalyses(row) ==
   LET One(cell) ==
          IF HasImpression(cell)
          THEN <<[ground_truth_binary |-> row.binary,
                  ground_truth_dx |-> row.dx,
                  clinical_impression |-> cell.text,
                  ai_prediction |-> row.ai_prediction]>>
          ELSE <<>>
   IN  One(row.clinical_impression_1) \o One(row.clinical_impression_2)
          \o One(row.clinical_impression_3)

RECURSIVE create_analysis_dataset(_)
\* create_analysis_dataset: the rows of the returned analysis_df.
create_analysis_dataset(rows) ==
   IF rows = <<>> THEN <<>>
   ELSE RowAnalyses(Head(rows)) \o create_analysis_dataset(Tail(rows))

\* Lines 532-537: 'dataset_info'.
DatasetInfo ==
   [total_images |-> Len(test_df),
    total_analyses |-> Len(analysis_df),
    successful_isskin_predictions |-> successful_predictions,
    failed_isskin_predictions |-> Len(test_df) - successful_predictions]

RInit ==
   /\ test_df \in UNION {[1..n -> ImageRows] : n \in 0..MaxImages}
   /\ ai_predictions = <<>>
   /\ outcomes = <<>>
   /\ successful_predictions = 0
   /\ analysis_df = <<>>
   /\ binary_comparison = NoResult
   /\ dx_comparison = NoResult
   /\ cpc = "predict"

\* Lines 508-513: one pass of the prediction loop.
PredictImage ==
   /\ cpc = "predict"
   /\ Len(ai_predictions) < Len(test_df)
   /\ \E outcome \in Outcomes, json \in ApiResponses :
         LET prediction == predict_image(outcome, json)
         IN  /\ ai_predictions' = Append(ai_predictions, prediction)
             /\ outcomes' = Append(outcomes, outcome)
             /\ successful_predictions' =
                   IF IsSuccessful(prediction) THEN successful_predictions + 1
                   ELSE successful_predictions
   /\ UNCHANGED <<test_df, cvars, nvars, lvars, svars, pvars, evars>>

\* Lines 516-521, after the loop: the predictions become a column and
\* create_analysis_dataset builds analysis_df.
CreateAnalysisDataset ==
   /\ cpc = "predict"
   /\ Len(ai_predictions) = Len(test_df)
   /\ analysis_df' = create_analysis_dataset(WithPredictions(test_df, ai_predictions))
   /\ cpc' = "binary"
   /\ UNCHANGED <<binary_comparison, dx_comparison, rvars, nvars, lvars, svars, pvars, evars>>

----------------------------------------------------------------------------
(* predict: POST /predict/ *)

Requests == 1..MaxRequests

\* The uploaded files: bytes Image.open cannot decode, and images of a few
\* sizes.
Uploads ==
   {[decodable |-> FALSE, size |-> <<0, 0>>]}
   \cup {[decodable |-> TRUE, size |-> sz] :
            sz \in {<<1, 641>>, <<3, 2>>, <<640, 480>>}}

\* preprocess_image: Image.open raises on bytes that are no image; the
\* decoded image goes through letterbox_image with size=(640, 640).
preprocess_image(image_bytes) ==
   IF ~image_bytes.decodable THEN Raised("UnidentifiedImageError")
   ELSE letterbox_image(image_bytes.size, <<YoloSide, YoloSide>>)

\* result.names of the two models.
class_names_binary == <<"benign", "malignant">>

class_names_dx == dx_categories

\* What the file of a model can be: a classifier, whose result.probs holds
\* one probability per class; a classifier that returns an empty vector; or
\* a model of another task, whose result.probs is None.
ModelKinds == {"classifier", "empty_probs", "no_probs"}

\* The probabilities a classifier gives an image, in millionths: some fixed
\* function of the pixels, here telling the two decodable uploads apart.
binary_probs(img) ==
   IF img.content[2] <= 450 THEN <<299951, 700049>> ELSE <<700049, 299951>>

dx_probs(img) ==
   IF img.content[2] <= 450
   THEN <<10050, 20000, 0, 0, 600150, 369800, 0, 0, 0>>
   ELSE <<0, 150025, 0, 0, 49975, 800000, 0, 0, 0>>

\* model(input_image, conf=0.25, iou=0.45)[0], reduced to its probs.
YoloResult(model, probs) ==
   IF model = "no_probs" THEN [has_probs |-> FALSE, probs |-> <<>>]
   ELSE IF model = "empty_probs" THEN [has_probs |-> TRUE, probs |-> <<>>]
   ELSE [has_probs |-> TRUE, probs |-> probs]

\* round(prob * 100, 2), in hundredths of a percent; a tie goes to the even
\* neighbour.
RoundPercent(prob) ==
   LET q == prob \div 100
       r == prob % 100
   IN  IF r > 50 \/ (r = 50 /\ q % 2 = 1) THEN q + 1 ELSE q

\* Lines 76-84: {class_names[i]: round(prob * 100, 2) for i, prob in enumerate(probs)}
PredictionDict(class_names, probs) ==
   [i \in 1..Len(probs) |-> <<class_names[i], RoundPercent(probs[i])>>]

\* predict, from preprocess_image to the return: result.probs.data raises
\* AttributeError when probs is None.
predict(image_bytes, result_binary, result_dx) ==
   LET img == preprocess_image(image_bytes)
   IN  IF img.status # "ok" THEN Raised(img.status)
       ELSE IF ~result_binary.has_probs THEN Raised("AttributeError")
       ELSE IF ~result_dx.has_probs THEN Raised("AttributeError")
       ELSE [status |-> "ok",
             binary_prediction |->
                PredictionDict(class_names_binary, result_binary.probs),
             dx_prediction |-> PredictionDict(class_names_dx, result_dx.probs)]

PInit ==
   /\ upload \in [Requests -> Uploads]
   /\ results = [r \in Requests |-> <<>>]
   /\ response = [r \in Requests |-> NoResult]
   /\ ppc = [r \in Requests |-> "read"]
   /\ input_image = [r \in Requests |-> NoResult]
   /\ model_binary \in ModelKinds
   /\ model_dx \in ModelKinds
   /\ predictor = [binary |-> NoResult, dx |-> NoResult]

\* A handler that is never suspended: other requests run in between.
EventLoopFreeAlways(r) == TRUE

\* predict is a coroutine of the one event loop, and its only await is line
\* 58: the loop runs request r only while no other request is between its
\* await and its return.
EventLoopFree(r) == \A q \in Requests \ {r} : ppc[q] \in {"read", "done"}

\* Line 58: image_bytes = await file.read() returns.
Read(r) ==
   /\ ppc[r] = "read"
   /\ EventLoopFree(r)
   /\ ppc' = [ppc EXCEPT ![r] = "preprocess"]
   /\ UNCHANGED <<upload, results, response, input_image, model_binary,
                  model_dx, predictor, nvars, lvars, cvars, svars, rvars, evars>>

\* Line 59: input_image = preprocess_image(image_bytes); an exception ends
\* the request.
Preprocess(r) ==
   /\ ppc[r] = "preprocess"
   /\ EventLoopFree(r)
   /\ LET img == preprocess_image(upload[r])
      IN  /\ input_image' = [input_image EXCEPT ![r] = img]
          /\ IF img.status = "ok"
             THEN /\ ppc' = [ppc EXCEPT ![r] = "call_binary"]
                  /\ UNCHANGED response
             ELSE /\ ppc' = [ppc EXCEPT ![r] = "done"]
                  /\ response' = [response EXCEPT ![r] = Raised(img.status)]
   /\ UNCHANGED <<upload, results, model_binary, model_dx, predictor,
                  nvars, lvars, cvars, svars, rvars, evars>>

\* Line 62, the call: model_binary takes the image.
CallBinary(r) ==
   /\ ppc[r] = "call_binary"
   /\ EventLoopFree(r)
   /\ predictor' = [predictor EXCEPT !.binary = input_image[r]]
   /\ ppc' = [ppc EXCEPT ![r] = "in_binary"]
   /\ UNCHANGED <<upload, results, response, input_image, model_binary,
                  model_dx, nvars, lvars, cvars, svars, rvars, evars>>

\* Lines 62-66, the return: the result of the image model_binary holds;
\* probs.data raises AttributeError when probs is None.
ReturnBinary(r) ==
   /\ ppc[r] = "in_binary"
   /\ EventLoopFree(r)
   /\ LET result_binary == YoloResult(model_binary, binary_probs(predictor.binary))
      IN  /\ results' = [results EXCEPT ![r] = <<result_binary>>]
          /\ IF result_binary.has_probs
             THEN /\ ppc' = [ppc EXCEPT ![r] = "call_dx"]
                  /\ UNCHANGED response
             ELSE /\ ppc' = [ppc EXCEPT ![r] = "done"]
                  /\ response' = [response EXCEPT ![r] = Raised("AttributeError")]
   /\ UNCHANGED <<upload, input_image, model_binary, model_dx, predictor,
                  nvars, lvars, cvars, svars, rvars, evars>>

\* Line 69, the call: model_dx takes the image.
CallDx(r) ==
   /\ ppc[r] = "call_dx"
   /\ EventLoopFree(r)
   /\ predictor' = [predictor EXCEPT !.dx = input_image[r]]
   /\ ppc' = [ppc EXCEPT ![r] = "in_dx"]
   /\ UNCHANGED <<upload, results, response, input_image, model_binary,
                  model_dx, nvars, lvars, cvars, svars, rvars, evars>>

\* Lines 69-73, the return.
ReturnDx(r) ==
   /\ ppc[r] = "in_dx"
   /\ EventLoopFree(r)
   /\ LET result_dx == YoloResult(model_dx, dx_probs(predictor.dx))
      IN  /\ results' = [results EXCEPT ![r] = Append(results[r], result_dx)]
          /\ IF result_dx.has_probs
             THEN /\ ppc' = [ppc EXCEPT ![r] = "assemble"]
                  /\ UNCHANGED response
             ELSE /\ ppc' = [ppc EXCEPT ![r] = "done"]
                  /\ response' = [response EXCEPT ![r] = Raised("AttributeError")]
   /\ UNCHANGED <<upload, input_image, model_binary, model_dx, predictor,
                  nvars, lvars, cvars, svars, rvars, evars>>

\* Lines 76-96: the two dicts and the return.
Respond(r) ==
   /\ ppc[r] = "assemble"
   /\ EventLoopFree(r)
   /\ response' = [response EXCEPT
                      ![r] = predict(upload[r], results[r][1], results[r][2])]
   /\ ppc' = [ppc EXCEPT ![r] = "done"]
   /\ UNCHANGED <<upload, results, input_image, model_binary, model_dx,
                  predictor, nvars, lvars, cvars, svars, rvars, evars>>


----------------------------------------------------------------------------
(* run_evaluation: the standalone evaluator (evaluate_models.py) *)

\* The values of the 'prediction' column: those of AiPredictions and an
\* answer whose binary dict lacks 'benign' and whose dx dict holds a tie.
EvaluationPredictions ==
   AiPredictions
      \cup {Prediction(<<<<"malignant", 70>>>>,
                       <<<<"nevus", 40>>, <<"melanoma", 40>>, <<"bcc", 20>>>>)}

\* The rows of the evaluator's DataFrame, without the image name.
EvaluationRows ==
   {[binary |-> g[1], dx |-> g[2], prediction |-> p] :
       g \in {<<"malignant", "melanoma">>, <<"benign", "nevus">>},
       p \in EvaluationPredictions}

\* self.binary_mapping of the evaluator: malignant = 1, benign = 0.
EvaluatorBinaryMapping(label) == IF label = "malignant" THEN 1 ELSE 0

\* Lines 107-126 with >= in place of > : a tie is malignant.
EvaluatorBinaryClassTieMalignant(prediction) ==
   IF prediction.isnull THEN 0
   ELSE LET binary_pred == prediction.binary_prediction
        IN  IF HasKey(binary_pred, "malignant") /\ HasKey(binary_pred, "benign")
            THEN IF DictGet(binary_pred, "malignant") >= DictGet(binary_pred, "benign")
                 THEN 1 ELSE 0
            ELSE 0

\* Lines 107-126 of evaluate_binary_model: the entry of y_pred for one row.
EvaluatorBinaryClass(prediction) ==
   IF prediction.isnull THEN 0
   ELSE LET binary_pred == prediction.binary_prediction
        IN  IF HasKey(binary_pred, "malignant") /\ HasKey(binary_pred, "benign")
            THEN IF DictGet(binary_pred, "malignant") > DictGet(binary_pred, "benign")
                 THEN 1 ELSE 0
            ELSE 0

\* Lines 156-169 of evaluate_dx_model: the entry of y_pred for one row.
EvaluatorDxClass(prediction) ==
   IF prediction.isnull THEN "unknown"
   ELSE LET dx_pred == prediction.dx_prediction
        IN  IF dx_pred # <<>> THEN ArgMax(dx_pred) ELSE "unknown"

\* sklearn's confusion_matrix without labels=: one row and one column per
\* label that occurs in y_true or y_pred, in sorted order; rows are the true
\* labels.
confusion_matrix(y_true, y_pred) ==
   LET present == {y_true[i] : i \in 1..Len(y_true)} \cup {y_pred[i] : i \in 1..Len(y_pred)}
       labels == IF present = {0, 1} THEN <<0, 1>>
                 ELSE IF present = {0} THEN <<0>>
                 ELSE IF present = {1} THEN <<1>>
                 ELSE <<>>
   IN  [a \in 1..Len(labels) |->
          [b \in 1..Len(labels) |->
             Cardinality({i \in 1..Len(y_true) :
                             y_true[i] = labels[a] /\ y_pred[i] = labels[b]})]]

\* Line 132: cm.ravel() if cm.size == 4 else (0, 0, 0, 0)
Ravel(cm) ==
   IF Len(cm) = 2 THEN <<cm[1][1], cm[1][2], cm[2][1], cm[2][2]>>
   ELSE <<0, 0, 0, 0>>

\* evaluate_binary_model
evaluate_binary_model(df) ==
   LET y_true == [i \in 1..Len(df) |-> EvaluatorBinaryMapping(df[i].binary)]
       y_pred == [i \in 1..Len(df) |-> EvaluatorBinaryClass(df[i].prediction)]
       cm == confusion_matrix(y_true, y_pred)
       tn == Ravel(cm)[1]
       fp == Ravel(cm)[2]
       fn == Ravel(cm)[3]
       tp == Ravel(cm)[4]
   IN  [status |-> "ok",
        y_pred |-> y_pred,
        accuracy |-> Frac(Cardinality({i \in 1..Len(df) : y_true[i] = y_pred[i]}), Len(df)),
        sensitivity |-> IF tp + fn > 0 THEN Frac(tp, tp + fn) ELSE Frac(0, 1),
        specificity |-> IF tn + fp > 0 THEN Frac(tn, tn + fp) ELSE Frac(0, 1),
        confusion_matrix |-> cm]

\* evaluate_dx_model
evaluate_dx_model(df) ==
   LET y_pred == [i \in 1..Len(df) |-> EvaluatorDxClass(df[i].prediction)]
       valid_indices == {i \in 1..Len(df) : y_pred[i] # "unknown"}
   IN  IF valid_indices = {}
       THEN [status |-> "ok", y_pred |-> y_pred,
             error |-> "No valid predictions found",
             accuracy |-> Frac(0, 1), total_samples |-> Len(df), valid_predictions |-> 0]
       ELSE [status |-> "ok", y_pred |-> y_pred,
             error |-> "",
             accuracy |-> Frac(Cardinality({i \in valid_indices : df[i].dx = y_pred[i]}),
                               Cardinality(valid_indices)),
             total_samples |-> Len(df),
             valid_predictions |-> Cardinality(valid_indices)]

EInit ==
   /\ evaluation_df \in UNION {[1..n -> EvaluationRows] : n \in 1..MaxImages}
   /\ predicted = [binary |-> <<>>, dx |-> <<>>]
   /\ binary_results = NoResult
   /\ dx_results = NoResult
   /\ epc = "binary"

\* Line 207: binary_results = self.evaluate_binary_model(df)
EvaluateBinary ==
   /\ epc = "binary"
   /\ LET result == evaluate_binary_model(evaluation_df)
      IN  /\ predicted' = [predicted EXCEPT !.binary = result.y_pred]
          /\ binary_results' = [status |-> result.status,
                                accuracy |-> result.accuracy,
                                sensitivity |-> result.sensitivity,
                                specificity |-> result.specificity,
                                confusion_matrix |-> result.confusion_matrix]
   /\ epc' = "dx"
   /\ UNCHANGED <<evaluation_df, dx_results, nvars, lvars, cvars, svars, rvars, pvars>>

\* Line 211: dx_results = self.evaluate_dx_model(df)
EvaluateDx ==
   /\ epc = "dx"
   /\ LET result == evaluate_dx_model(evaluation_df)
      IN  /\ predicted' = [predicted EXCEPT !.dx = result.y_pred]
          /\ dx_results' = [status |-> result.status,
                            error |-> result.error,
                            accuracy |-> result.accuracy,
                            total_samples |-> result.total_samples,
                            valid_predictions |-> result.valid_predictions]
   /\ epc' = "done"
   /\ UNCHANGED <<evaluation_df, binary_results, nvars, lvars, cvars, svars, rvars, pvars>>

----------------------------------------------------------------------------
(* Specifications: each part of the program on its own inputs *)

NIdle ==
   /\ impression = [kind |-> "none", text |-> <<>>]
   /\ dx_category = "none"
   /\ binary_label = "none"
   /\ npc = "idle"

LIdle ==
   /\ image = <<1, 1>>
   /\ size = <<YoloSide, YoloSide>>
   /\ new_image = [status |-> "none", canvas |-> <<0, 0>>,
                   content |-> <<0, 0>>, offset |-> <<0, 0>>]
   /\ lpc = "idle"

CIdle ==
   /\ analysis_df = <<>>
   /\ binary_comparison = NoResult
   /\ dx_comparison = NoResult
   /\ cpc = "idle"

SIdle ==
   /\ score_df = <<>>
   /\ score_type = "none"
   /\ agreement_result = NoResult
   /\ spc = "idle"

RIdle ==
   /\ test_df = <<>>
   /\ ai_predictions = <<>>
   /\ outcomes = <<>>
   /\ successful_predictions = 0

PIdle ==
   /\ upload = <<>>
   /\ results = <<>>
   /\ response = <<>>
   /\ ppc = <<>>
   /\ input_image = <<>>
   /\ model_binary = "none"
   /\ model_dx = "none"
   /\ predictor = [binary |-> NoResult, dx |-> NoResult]

EIdle ==
   /\ evaluation_df = <<>>
   /\ predicted = [binary |-> <<>>, dx |-> <<>>]
   /\ binary_results = NoResult
   /\ dx_results = NoResult
   /\ epc = "idle"

NNext == NormalizeCategory \/ NormalizeBinary

LNext == Letterbox

CNext == CompareBinary \/ CompareDx

SNext == Score

PNext ==
   \E r \in Requests :
      \/ Read(r)
      \/ Preprocess(r)
      \/ CallBinary(r)
      \/ ReturnBinary(r)
      \/ CallDx(r)
      \/ ReturnDx(r)
      \/ Respond(r)

RNext == PredictImage \/ CreateAnalysisDataset \/ CompareBinary \/ CompareDx

ENext == EvaluateBinary \/ EvaluateDx

InitNormalize == NInit /\ LIdle /\ CIdle /\ SIdle /\ RIdle /\ PIdle /\ EIdle

InitLetterbox == NIdle /\ LInit /\ CIdle /\ SIdle /\ RIdle /\ PIdle /\ EIdle

InitCompare == NIdle /\ LIdle /\ CInit /\ SIdle /\ RIdle /\ PIdle /\ EIdle

InitScore == NIdle /\ LIdle /\ CIdle /\ SInit /\ RIdle /\ PIdle /\ EIdle

InitRun == NIdle /\ LIdle /\ SIdle /\ RInit /\ PIdle /\ EIdle

InitPredict == NIdle /\ LIdle /\ CIdle /\ SIdle /\ RIdle /\ PInit /\ EIdle

InitEvaluate == NIdle /\ LIdle /\ CIdle /\ SIdle /\ RIdle /\ PIdle /\ EInit

\* The normaliser on one impression.
SpecNormalize == InitNormalize /\ [][NNext]_vars

\* letterbox_image on one image.
SpecLetterbox == InitLetterbox /\ [][LNext]_vars

\* The two comparisons of run_comparison on one analysis dataset.
SpecCompare == InitCompare /\ [][CNext]_vars

\* calculate_agreement_and_accuracy on one list of rows.
SpecScore == InitScore /\ [][SNext]_vars

\* run_comparison from the prediction loop to the two comparisons.
SpecRun == InitRun /\ [][RNext]_vars

\* The predict requests of one server process.
SpecPredict == InitPredict /\ [][PNext]_vars

\* The two evaluations of run_evaluation on one DataFrame of predictions.
SpecEvaluate == InitEvaluate /\ [][ENext]_vars

Init ==
   InitNormalize \/ InitLetterbox \/ InitCompare \/ InitScore \/ InitRun
      \/ InitPredict \/ InitEvaluate

Next == NNext \/ LNext \/ SNext \/ RNext \/ PNext \/ ENext

Spec == Init /\ [][Next]_vars

----------------------------------------------------------------------------
(* Claims about the normaliser, checked under SpecNormalize *)

DiagnosticCategory ==
   {"ak", "bcc", "df", "lentigo", "melanoma", "nevus", "scc",
    "seborrheic_keratosis", "vasc", "unknown"}

\* What "lowercased" means for the claims, stated apart from the model's Lower.
ClaimLowercased(s) ==
   [i \in 1..Len(s) |->
      IF \E j \in 1..Len(UpperCase) : UpperCase[j] = s[i]
      THEN LowerCase[CHOOSE j \in 1..Len(UpperCase) : UpperCase[j] = s[i]]
      ELSE s[i]]

\* The lowercased, whitespace-trimmed form of a text, for the claims.
ClaimCleaned(s) == Strip(ClaimLowercased(s))

\* Table entries whose key equals the cleaned text.
ClaimExact(s) ==
   LET c == ClaimCleaned(s)
   IN  {i \in 1..Len(clinical_to_dx_mapping) : clinical_to_dx_mapping[i].term = c}

\* Table entries that fuzzy-match the cleaned text, either way round.
ClaimFuzzy(s) ==
   LET c == ClaimCleaned(s)
   IN  {i \in 1..Len(clinical_to_dx_mapping) :
           \/ IsSubstring(clinical_to_dx_mapping[i].term, c)
           \/ IsSubstring(c, clinical_to_dx_mapping[i].term)}

\* C1: every input that is absent, not a string, the empty string or blank
\* after trimming is normalised to 'unknown'.
C1_BlankIsUnknown ==
   (npc # "category"
      /\ (impression.kind # "str" \/ Strip(impression.text) = <<>>))
   => dx_category = "unknown"

\* C3: the normaliser is total: for every input it returns (it does not
\* raise), and the value is one of the ten diagnostic categories.
C3_TotalIntoCategories ==
   npc # "category" => dx_category \in DiagnosticCategory

C3_Witness ==
   npc # "category" /\ impression.kind = "int" /\ dx_category = "unknown"

\* C4: when the lowercased, trimmed input equals a key of the term table,
\* the result is that key's category, whatever else the input contains.
C4_ExactMatchWins ==
   (npc # "category" /\ impression.kind = "str")
   => \A i \in ClaimExact(impression.text) :
         dx_category = clinical_to_dx_mapping[i].dx

C4_Witness ==
   /\ npc = "done"
   /\ impression.text =
         <<"M","e","l","a","n","o","m","a"," ","m","a","l","i","g","n","o">>
   /\ dx_category = "melanoma"

\* C5: when no key equals the cleaned input and some terms fuzzy-match it,
\* the result is the category of the earliest matching term of the table.
C5_FirstFuzzyMatchWins ==
   (npc # "category" /\ impression.kind = "str")
   => LET exact == ClaimExact(impression.text)
          fuzzy == ClaimFuzzy(impression.text)
      IN  (exact = {} /\ fuzzy # {})
          => \E i \in fuzzy :
                /\ \A j \in fuzzy : i <= j
                /\ dx_category = clinical_to_dx_mapping[i].dx

\* Two terms of different categories match, and no key is equal.
C5_Witness ==
   /\ npc = "done"
   /\ impression.kind = "str"
   /\ LET exact == ClaimExact(impression.text)
          fuzzy == ClaimFuzzy(impression.text)
      IN  /\ exact = {}
          /\ \E i, j \in fuzzy :
                /\ i < j
                /\ clinical_to_dx_mapping[i].dx # clinical_to_dx_mapping[j].dx
                /\ dx_category = clinical_to_dx_mapping[i].dx

\* The priority order of the keyword rules, as the claim states it.
ClaimRuleOrder ==
   <<"melanoma", "bcc", "scc", "ak", "nevus", "df", "seborrheic_keratosis",
     "lentigo", "vasc">>

\* Whether the keyword rule of category c matches the cleaned text c_text.
ClaimRuleMatches(c, c_text) ==
   \E r \in 1..Len(keyword_patterns) :
      /\ keyword_patterns[r].dx = c
      /\ \E t \in 1..Len(keyword_patterns[r].terms) :
            IsSubstring(keyword_patterns[r].terms[t], c_text)

\* C6: the keyword rules decide only when the exact and the fuzzy tier both
\* fail; then the first matching rule in the order melanoma, bcc, scc, ak,
\* nevus, df, seborrheic_keratosis, lentigo, vasc wins, and an input that
\* matches nothing is 'unknown'.
C6_KeywordFallback ==
   (npc # "category" /\ impression.kind = "str")
   => LET s == impression.text
          cleaned == ClaimCleaned(s)
          table == ClaimExact(s) \cup ClaimFuzzy(s)
          rules == {k \in 1..Len(ClaimRuleOrder) :
                       ClaimRuleMatches(ClaimRuleOrder[k], cleaned)}
      IN  /\ table # {}
             => \E i \in table : dx_category = clinical_to_dx_mapping[i].dx
          /\ (table = {} /\ rules # {})
             => \E k \in rules : /\ \A q \in rules : k <= q
                                 /\ dx_category = ClaimRuleOrder[k]
          /\ (table = {} /\ rules = {}) => dx_category = "unknown"

\* No table term matches and two rules of different rank do.
C6_Witness ==
   /\ npc = "done"
   /\ impression.kind = "str"
   /\ ClaimExact(impression.text) \cup ClaimFuzzy(impression.text) = {}
   /\ ClaimRuleMatches("bcc", ClaimCleaned(impression.text))
   /\ ClaimRuleMatches("ak", ClaimCleaned(impression.text))
   /\ dx_category = "bcc"

\* C7: the binary label is 'malignant' exactly for melanoma, bcc, scc and
\* ak, 'unknown' exactly for 'unknown', and 'benign' for the other five.
C7_BinaryFollowsCategory ==
   npc = "done"
   => /\ binary_label = "malignant"
            <=> dx_category \in {"melanoma", "bcc", "scc", "ak"}
      /\ binary_label = "unknown" <=> dx_category = "unknown"
      /\ dx_category \in {"nevus", "df", "seborrheic_keratosis", "lentigo", "vasc"}
            => binary_label = "benign"

C7_Witness ==
   npc = "done" /\ dx_category = "ak" /\ binary_label = "malignant"

----------------------------------------------------------------------------
(* Claims about letterbox_image, checked under SpecLetterbox *)

\* C2: for every image of at least 1 x 1 and every target (W, H),
\* letterbox_image returns a canvas of exactly W x H.
C2_CanvasIsTarget ==
   (lpc = "done" /\ image[1] >= 1 /\ image[2] >= 1)
   => (new_image.status = "ok" /\ new_image.canvas = size)

----------------------------------------------------------------------------
(* Claims about the scorer, checked under SpecCompare *)

\* The AI's binary label as the claims state it: a missing prediction, or
\* one without both keys, has no label.
ClaimAiBinary(row) ==
   IF row.ai_prediction.isnull
      \/ ~HasKey(row.ai_prediction.binary_prediction, "malignant")
      \/ ~HasKey(row.ai_prediction.binary_prediction, "benign")
   THEN "unknown"
   ELSE IF DictGet(row.ai_prediction.binary_prediction, "malignant")
              > DictGet(row.ai_prediction.binary_prediction, "benign")
        THEN "malignant" ELSE "benign"

\* The AI's dx label as the claims state it: the arg-max class, or none.
ClaimAiDx(row) ==
   IF row.ai_prediction.isnull \/ row.ai_prediction.dx_prediction = <<>>
   THEN "unknown"
   ELSE ArgMax(row.ai_prediction.dx_prediction)

\* C8: in the AI binary accuracy a row without a usable prediction counts
\* as predicted benign, and the denominator is the number of rows whose
\* ground-truth binary label is malignant or benign.
C8_NullCountsAsBenign ==
   binary_comparison.status = "ok"
   => LET mapped == {i \in 1..Len(analysis_df) :
                        analysis_df[i].ground_truth_binary \in {"malignant", "benign"}}
          Label(i) == IF ClaimAiBinary(analysis_df[i]) = "unknown" THEN "benign"
                      ELSE ClaimAiBinary(analysis_df[i])
          hits == {i \in mapped : Label(i) = analysis_df[i].ground_truth_binary}
      IN  IF mapped = {}
          THEN binary_comparison.isskin_accuracy.num = 0
          ELSE binary_comparison.isskin_accuracy
                  = Frac(Cardinality(hits), Cardinality(mapped))

\* Two rows with a mapped ground truth, one of them benign without a
\* prediction: it is counted, and counted as a hit.
C8_Witness ==
   /\ binary_comparison.status = "ok"
   /\ Len(analysis_df) = 2
   /\ analysis_df[1].ai_prediction.isnull
   /\ analysis_df[1].ground_truth_binary = "benign"
   /\ analysis_df[2].ground_truth_binary = "malignant"
   /\ ClaimAiBinary(analysis_df[2]) = "benign"
   /\ binary_comparison.isskin_accuracy = Frac(1, 2)

\* C9 as stated: the dx accuracy is the fraction, among the rows that have
\* a dx prediction, of those whose arg-max class is the ground truth, and
\* 0.0 when no row has one.
C9_DxAccuracyOverPredicted ==
   dx_comparison.status = "ok"
   => LET remaining == {i \in 1..Len(analysis_df) :
                           ClaimAiDx(analysis_df[i]) # "unknown"}
          hits == {i \in remaining :
                      ClaimAiDx(analysis_df[i]) = analysis_df[i].ground_truth_dx}
      IN  FracEq(dx_comparison.isskin_accuracy,
                 IF remaining = {} THEN Frac(0, 1)
                 ELSE Frac(Cardinality(hits), Cardinality(remaining)))

\* C9 as amended: rows whose ground-truth category is missing are left out
\* as well; the accuracy of calculate_isskin_accuracy_dx is the fraction of
\* the other rows with a dx prediction whose arg-max class is the ground
\* truth, and 0.0 when none remain.
C9_DxAccuracyOverPredictedWithTruth ==
   dx_comparison.status = "ok"
   => LET remaining == {i \in 1..Len(analysis_df) :
                           /\ ClaimAiDx(analysis_df[i]) # "unknown"
                           /\ analysis_df[i].ground_truth_dx # "nan"}
          hits == {i \in remaining :
                      ClaimAiDx(analysis_df[i]) = analysis_df[i].ground_truth_dx}
      IN  IF remaining = {}
          THEN dx_comparison.isskin_accuracy.num = 0
          ELSE dx_comparison.isskin_accuracy
                  = Frac(Cardinality(hits), Cardinality(remaining))

\* A row without a prediction beside a row that has one and is a hit.
C9_Witness ==
   /\ dx_comparison.status = "ok"
   /\ Len(analysis_df) = 2
   /\ analysis_df[1].ai_prediction.isnull
   /\ analysis_df[1].ground_truth_dx = "nevus"
   /\ ClaimAiDx(analysis_df[2]) = "melanoma"
   /\ analysis_df[2].ground_truth_dx = "melanoma"
   /\ dx_comparison.isskin_accuracy = Frac(1, 1)

\* Whether both the AI and the doctor have a resolvable label on a row.
ClaimComparableBinary(row) ==
   /\ ClaimAiBinary(row) # "unknown"
   /\ DoctorBinary[row.clinical_impression] # "unknown"

ClaimComparableDx(row) ==
   /\ ClaimAiDx(row) # "unknown"
   /\ DoctorDx[row.clinical_impression] # "unknown"

\* C10: agreement rate and kappa are those of the rows where both sides
\* are resolved (dropping every other row changes neither value), and
\* total_comparable_cases is the number of those rows.
C10_AgreementOverIntersection ==
   cpc = "done"
   => LET both_binary == SelectSeq(analysis_df, ClaimComparableBinary)
          both_dx == SelectSeq(analysis_df, ClaimComparableDx)
      IN  /\ binary_comparison.total_comparable_cases = Len(both_binary)
          /\ dx_comparison.total_comparable_cases = Len(both_dx)
          /\ both_binary # <<>>
             => LET alone == compare_binary_classifications(both_binary)
                IN  /\ FracEq(binary_comparison.agreement_rate, alone.agreement_rate)
                    /\ binary_comparison.cohen_kappa = alone.cohen_kappa
          /\ both_dx # <<>>
             => LET alone == compare_dx_classifications(both_dx)
                IN  /\ FracEq(dx_comparison.agreement_rate, alone.agreement_rate)
                    /\ dx_comparison.cohen_kappa = alone.cohen_kappa

\* One row where both sides are resolved and disagree, and one row where
\* the doctor's label is unknown while the AI has one.
C10_Witness ==
   /\ cpc = "done"
   /\ Len(analysis_df) = 2
   /\ ClaimComparableBinary(analysis_df[1])
   /\ ClaimAiBinary(analysis_df[1]) # DoctorBinary[analysis_df[1].clinical_impression]
   /\ ClaimAiBinary(analysis_df[2]) # "unknown"
   /\ DoctorBinary[analysis_df[2].clinical_impression] = "unknown"
   /\ binary_comparison.total_comparable_cases = 1
   /\ binary_comparison.agreement_rate.num = 0

----------------------------------------------------------------------------
(* Claims about calculate_agreement_and_accuracy, checked under SpecScore *)

\* The rows of the call where both the AI and the doctor have a resolvable
\* label of the call's classification type.
ClaimComparable ==
   {i \in 1..Len(score_df) :
       IF score_type = "binary"
       THEN ClaimComparableBinary(score_df[i])
       ELSE ClaimComparableDx(score_df[i])}

\* C12: when no row has both an AI and a doctor label, the call returns
\* (it does not raise) with agreement_rate = 0 and cohen_kappa = 0.
C12_EmptyComparableIsZero ==
   (spc = "done" /\ ClaimComparable = {})
   => /\ agreement_result.status = "ok"
      /\ agreement_result.agreement_rate.num = 0
      /\ ~agreement_result.cohen_kappa.nan
      /\ agreement_result.cohen_kappa.num = 0
      /\ agreement_result.total_comparable_cases = 0

\* Two rows, neither comparable: the AI has a label on the first only and
\* the doctor on the second only.
C12_Witness ==
   /\ spc = "done"
   /\ Len(score_df) = 2
   /\ ClaimComparable = {}
   /\ ClaimAiBinary(score_df[1]) # "unknown"
   /\ DoctorBinary[score_df[2].clinical_impression] # "unknown"
   /\ agreement_result.agreement_rate.num = 0
   /\ agreement_result.cohen_kappa.num = 0

\* C13: on empty input (no rows, empty lists) the call does not raise and
\* every metric of the result is zero: the two totals, the comparable-case
\* count, both accuracies, their difference, the agreement rate, the
\* disagreement rate and kappa.
C13_EmptyInputAllZero ==
   (spc = "done" /\ score_df = <<>>)
   => /\ agreement_result.status = "ok"
      /\ agreement_result.total_isskin_predictions = 0
      /\ agreement_result.total_doctor_predictions = 0
      /\ agreement_result.total_comparable_cases = 0
      /\ agreement_result.isskin_accuracy.num = 0
      /\ agreement_result.doctor_accuracy.num = 0
      /\ agreement_result.accuracy_difference.num = 0
      /\ agreement_result.agreement_rate.num = 0
      /\ agreement_result.disagreement_rate.num = 0
      /\ ~agreement_result.cohen_kappa.nan
      /\ agreement_result.cohen_kappa.num = 0

\* C16: a row whose ground-truth binary label is neither 'malignant' nor
\* 'benign' is left out of every binary accuracy: without such rows the AI
\* binary accuracy and the doctor binary accuracy are the same, and the call
\* does not raise.
C16_UnmappedTruthExcluded ==
   (spc = "done" /\ score_type = "binary")
   => LET Mapped(row) == row.ground_truth_binary \in {"malignant", "benign"}
          alone == ScoreOf(SelectSeq(score_df, Mapped), "binary")
      IN  /\ agreement_result.status = "ok"
          /\ FracEq(agreement_result.isskin_accuracy, alone.isskin_accuracy)
          /\ FracEq(agreement_result.doctor_accuracy, alone.doctor_accuracy)

\* The AI's and the doctor's label on a row of the call.
ClaimAiLabel(row) ==
   IF score_type = "binary" THEN ClaimAiBinary(row) ELSE ClaimAiDx(row)

ClaimDoctorLabel(row) ==
   IF score_type = "binary" THEN DoctorBinary[row.clinical_impression]
   ELSE DoctorDx[row.clinical_impression]

\* C15: when the AI label equals the doctor label on every comparable row
\* and there is at least one, agreement_rate is 1.0; cohen_kappa is 1.0 when
\* two distinct classes occur among those labels, and a number (not nan, no
\* exception) when all labels are the same class.
C15_FullAgreement ==
   (/\ spc = "done"
    /\ ClaimComparable # {}
    /\ \A i \in ClaimComparable :
          ClaimAiLabel(score_df[i]) = ClaimDoctorLabel(score_df[i]))
   => /\ agreement_result.status = "ok"
      /\ FracEq(agreement_result.agreement_rate, Frac(1, 1))
      /\ ~agreement_result.cohen_kappa.nan
      /\ (\E i, j \in ClaimComparable :
             ClaimAiLabel(score_df[i]) # ClaimAiLabel(score_df[j]))
         => agreement_result.cohen_kappa.num = agreement_result.cohen_kappa.den

----------------------------------------------------------------------------
(* Claims about the dataset run, checked under SpecRun *)

\* C14: when no image has a non-empty clinical impression, so that the
\* analysis dataset is empty, the binary and the dx comparison complete and
\* their metrics are zero; no error is raised.
C14_EmptyRecordSetCompletes ==
   (cpc \in {"dx", "done", "raised"} /\ analysis_df = <<>>)
   => /\ cpc # "raised"
      /\ binary_comparison.status = "ok"
      /\ binary_comparison.total_comparable_cases = 0
      /\ binary_comparison.agreement_rate.num = 0
      /\ binary_comparison.cohen_kappa.num = 0
      /\ binary_comparison.isskin_accuracy.num = 0
      /\ binary_comparison.doctor_accuracy.num = 0
      /\ cpc = "done"
         => /\ dx_comparison.status = "ok"
            /\ dx_comparison.total_comparable_cases = 0
            /\ dx_comparison.agreement_rate.num = 0
            /\ dx_comparison.cohen_kappa.num = 0
            /\ dx_comparison.isskin_accuracy.num = 0
            /\ dx_comparison.doctor_accuracy.num = 0

\* The calls so far that failed: file missing, status other than 200, or
\* an exception (connection error, timeout).
ClaimFailedCalls == {i \in 1..Len(outcomes) : outcomes[i] # "ok"}

\* C17: a failed inference call leaves a null prediction for its image and
\* does not stop the run: each pass adds one entry, at the image's position;
\* after the loop every image has exactly one entry, null exactly for the
\* failed calls; successful + failed = total images, failed being the number
\* of failed calls; and the run raises only when the analysis dataset is
\* empty, whatever the calls met.
C17_FailureIsNullPrediction ==
   /\ Len(ai_predictions) = Len(outcomes)
   /\ Len(ai_predictions) <= Len(test_df)
   /\ \A i \in 1..Len(ai_predictions) :
         ai_predictions[i].isnull <=> i \in ClaimFailedCalls
   /\ successful_predictions = Len(outcomes) - Cardinality(ClaimFailedCalls)
   /\ (cpc = "predict" /\ Len(ai_predictions) < Len(test_df)) => ENABLED PredictImage
   /\ cpc # "predict"
      => /\ Len(ai_predictions) = Len(test_df)
         /\ DatasetInfo.failed_isskin_predictions = Cardinality(ClaimFailedCalls)
         /\ DatasetInfo.successful_isskin_predictions
               + DatasetInfo.failed_isskin_predictions = Len(test_df)
   /\ cpc = "raised"
      => \A i \in 1..Len(test_df) :
            /\ IsNa(test_df[i].clinical_impression_1)
            /\ Strip(test_df[i].clinical_impression_2.text) = <<>>
            /\ IsNa(test_df[i].clinical_impression_3)

\* The first call fails, the second succeeds, and the run completes.
C17_Witness ==
   /\ cpc = "done"
   /\ Len(test_df) = 2
   /\ outcomes = <<"exception", "ok">>
   /\ ai_predictions[1].isnull
   /\ ~ai_predictions[2].isnull
   /\ successful_predictions = 1

----------------------------------------------------------------------------
(* Claims about predict, checked under SpecPredict *)

\* C18: whenever one of the two models yields no distribution or an empty
\* one, the request fails with ModelUnavailableError; no response holds an
\* empty distribution.
C18_ModelUnavailable ==
   \A r \in Requests :
      ppc[r] = "done"
      => /\ (\E k \in 1..Len(results[r]) :
                ~results[r][k].has_probs \/ results[r][k].probs = <<>>)
            => response[r].status = "ModelUnavailableError"
         /\ response[r].status = "ok"
            => /\ response[r].binary_prediction # <<>>
               /\ response[r].dx_prediction # <<>>

----------------------------------------------------------------------------
(* Further claims about letterbox_image, checked under SpecLetterbox *)

ClaimRound(c, a, b) ==
   LET q == (c * a) \div b
       r == (c * a) % b
   IN  IF 2 * r > b \/ (2 * r = b /\ q % 2 = 1) THEN q + 1 ELSE q

\* C20: with scale = min(W/iw, H/ih), the resized content has the
\* dimensions (round(iw * scale), round(ih * scale)).
C20_ContentIsRounded ==
   (lpc = "done" /\ image[1] >= 1 /\ image[2] >= 1)
   => LET iw == image[1]
          ih == image[2]
          w == size[1]
          h == size[2]
      IN  IF w * ih <= h * iw
          THEN new_image.content = <<ClaimRound(iw, w, iw), ClaimRound(ih, w, iw)>>
          ELSE new_image.content = <<ClaimRound(iw, h, ih), ClaimRound(ih, h, ih)>>

\* Whether scale = min(W/iw, H/ih) is 1, and whether the image has the
\* aspect ratio of the target, in exact arithmetic.
ClaimScaleIsOne ==
   IF size[1] * image[2] <= size[2] * image[1]
   THEN size[1] = image[1] ELSE size[2] = image[2]

ClaimAspectMatches == image[1] * size[2] = image[2] * size[1]

\* The padding before and after the content on axis a (1 = x, 2 = y).
ClaimPadBefore(a) == new_image.offset[a]

ClaimPadAfter(a) == size[a] - new_image.content[a] - new_image.offset[a]

\* C21 as stated: the paste offset is (0,0) only if scale = 1 and the aspect
\* ratios match; for every other input the padding is non-zero; and the
\* padding on the two opposite sides of an axis differs by at most one pixel.
C21_OffsetZeroOnlyAtTargetSize ==
   (lpc = "done" /\ new_image.status = "ok")
   => /\ new_image.offset = <<0, 0>> => (ClaimScaleIsOne /\ ClaimAspectMatches)
      /\ ~(ClaimScaleIsOne /\ ClaimAspectMatches) => new_image.content # size
      /\ \A a \in {1, 2} :
            /\ ClaimPadAfter(a) - ClaimPadBefore(a) <= 1
            /\ ClaimPadBefore(a) - ClaimPadAfter(a) <= 1

\* C21 as amended: whenever letterbox_image returns a canvas, the offset on
\* an axis is 0 exactly when the content is at most one pixel short of the
\* target on that axis; it is (0,0) for every input with the target's aspect
\* ratio, at any scale; an input of the target's size fills the canvas; and
\* the padding after the content is the padding before it or one pixel more.
C21_CentredWithinOnePixel ==
   (lpc = "done" /\ new_image.status = "ok")
   => /\ \A a \in {1, 2} :
            /\ new_image.offset[a] = 0 <=> size[a] - new_image.content[a] <= 1
            /\ ClaimPadBefore(a) >= 0
            /\ ClaimPadBefore(a) <= ClaimPadAfter(a)
            /\ ClaimPadAfter(a) <= ClaimPadBefore(a) + 1
      /\ ClaimAspectMatches => new_image.offset = <<0, 0>>
      /\ image = size => new_image.content = size

\* A 3 x 2 image on the 640 x 640 canvas: 107 rows of padding above and
\* below the 640 x 426 content.
C21_Witness ==
   /\ lpc = "done"
   /\ image = <<3, 2>>
   /\ size = <<YoloSide, YoloSide>>
   /\ new_image.content = <<640, 426>>
   /\ new_image.offset = <<0, 107>>

\* The image request r hands to both models: its own upload, normalized.
ClaimOwnImage(r) == preprocess_image(upload[r])

\* C22: under any interleaving of concurrent predict requests, the response
\* of a request exists only once the request is over, a successful one only
\* after both model invocations have returned; its binary and dx
\* distributions are those of model_binary and model_dx applied to the
\* request's own normalized image; and while an invocation of a request is
\* in progress the model works on that request's image, the dx invocation
\* leaving what the binary model holds as it was.
C22_RequestsIsolated ==
   \A r \in Requests :
      /\ response[r] # NoResult => ppc[r] = "done"
      /\ response[r].status = "ok" =>
            /\ Len(results[r]) = 2
            /\ response[r].binary_prediction =
                  PredictionDict(class_names_binary,
                     YoloResult(model_binary, binary_probs(ClaimOwnImage(r))).probs)
            /\ response[r].dx_prediction =
                  PredictionDict(class_names_dx,
                     YoloResult(model_dx, dx_probs(ClaimOwnImage(r))).probs)
      /\ ppc[r] = "in_binary" => predictor.binary = ClaimOwnImage(r)
      /\ ppc[r] = "in_dx" =>
            /\ predictor.dx = ClaimOwnImage(r)
            /\ predictor.binary = ClaimOwnImage(r)

\* Two requests with different images have both been answered, each with the
\* distributions of its own image.
C22_Witness ==
   \E r \in Requests, q \in Requests :
      /\ upload[r].size = <<3, 2>>
      /\ upload[q].size = <<640, 480>>
      /\ ppc[r] = "done" /\ ppc[q] = "done"
      /\ response[r].status = "ok" /\ response[q].status = "ok"
      /\ response[r].binary_prediction = <<<<"benign", 3000>>, <<"malignant", 7000>>>>
      /\ response[q].binary_prediction = <<<<"benign", 7000>>, <<"malignant", 3000>>>>
      /\ response[r].dx_prediction # response[q].dx_prediction

\* The impression cells of an image that are not empty (neither missing nor
\* made of blanks only), in column order.
ClaimImpressions(row) ==
   SelectSeq(<<row.clinical_impression_1, row.clinical_impression_2,
               row.clinical_impression_3>>,
             LAMBDA cell : cell.kind = "str" /\ \E j \in 1..Len(cell.text) : cell.text[j] # " ")

\* C23: once create_analysis_dataset has run, analysis_df has exactly one
\* record per (image, non-empty impression) pair: image i with k non-empty
\* impressions owns the k records that follow those of the images before it,
\* the m-th of them carrying its m-th non-empty impression, its ground-truth
\* binary label and category and its AI prediction; there are no others.
C23_OneRecordPerImpression ==
   cpc # "predict" =>
      LET impressions == [i \in 1..Len(test_df) |-> ClaimImpressions(test_df[i])]
          before[i \in 1..(Len(test_df) + 1)] ==
             IF i = 1 THEN 0 ELSE before[i - 1] + Len(impressions[i - 1])
      IN  /\ Len(analysis_df) = before[Len(test_df) + 1]
          /\ \A i \in 1..Len(test_df) :
                /\ Len(impressions[i]) \in 0..3
                /\ \A m \in 1..Len(impressions[i]) :
                      LET record == analysis_df[before[i] + m]
                      IN  /\ record.clinical_impression = impressions[i][m].text
                          /\ record.ground_truth_binary = test_df[i].binary
                          /\ record.ground_truth_dx = test_df[i].dx
                          /\ record.ai_prediction = ai_predictions[i]

\* An image without impressions (an empty, a blank and an empty cell) whose
\* call failed is followed by an image with three and a prediction: three
\* records, all of the second image.
C23_Witness ==
   /\ cpc # "predict"
   /\ Len(test_df) = 2
   /\ Len(ClaimImpressions(test_df[1])) = 0
   /\ test_df[1].clinical_impression_2 = Cell(<<" ", " ">>)
   /\ Len(ClaimImpressions(test_df[2])) = 3
   /\ ai_predictions[1].isnull /\ ~ai_predictions[2].isnull
   /\ Len(analysis_df) = 3
   /\ analysis_df[3].clinical_impression = test_df[2].clinical_impression_3.text
   /\ analysis_df[1].ai_prediction = ai_predictions[2]

----------------------------------------------------------------------------
(* Claims about the standalone evaluator, checked under SpecEvaluate *)

\* The record create_analysis_dataset makes of the image of evaluator row i
\* for one impression: the row the comparison derives the AI's class from.
ClaimAnalysisRow(i) ==
   [ground_truth_binary |-> evaluation_df[i].binary,
    ground_truth_dx |-> evaluation_df[i].dx,
    clinical_impression |-> <<"n","e","v","o">>,
    ai_prediction |-> evaluation_df[i].prediction]

\* C24: for every prediction value (null, a binary dict without one of its
\* keys, an empty dx dict, well-formed, a malignant/benign tie), the binary
\* class and the dx class the evaluator puts in its y_pred lists are the
\* classes calculate_isskin_accuracy_binary and calculate_isskin_accuracy_dx
\* derive from the same prediction.
C24_SameClassAsEvaluator ==
   epc = "done" =>
      \A i \in 1..Len(evaluation_df) :
         /\ predicted.binary[i] =
               (IF BinaryPredClass(ClaimAnalysisRow(i)) = "malignant" THEN 1 ELSE 0)
         /\ predicted.dx[i] = DxPredClass(ClaimAnalysisRow(i))

\* Both evaluations have run on a failed call and on a tie.
C24_Witness ==
   /\ epc = "done"
   /\ Len(evaluation_df) = 2
   /\ evaluation_df[1].prediction = NoPrediction
   /\ evaluation_df[2].prediction.binary_prediction = <<<<"benign", 50>>, <<"malignant", 50>>>>
   /\ predicted.binary = <<0, 0>>
   /\ predicted.dx = <<"unknown", "melanoma">>

\* The number of rows whose true binary label is truth and whose predicted
\* class is pred (1 = malignant, 0 = benign).
ClaimCount(truth, pred) ==
   Cardinality({i \in 1..Len(evaluation_df) :
                   /\ evaluation_df[i].binary = truth
                   /\ predicted.binary[i] = pred})

----------------------------------------------------------------------------
(* Further claims about calculate_agreement_and_accuracy, under SpecScore *)

\* C26: in every result, 'agreements' is the number of comparable rows on
\* which the AI label equals the doctor label, 'disagreements' the number
\* on which they differ, their sum is total_comparable_cases, and
\* agreements = agreement_rate x total_comparable_cases.
C26_AgreementCounts ==
   spc = "done" =>
      LET same == {i \in ClaimComparable :
                      ClaimAiLabel(score_df[i]) = ClaimDoctorLabel(score_df[i])}
      IN  /\ agreement_result.agreements = Cardinality(same)
          /\ agreement_result.disagreements = Cardinality(ClaimComparable \ same)
          /\ agreement_result.agreements + agreement_result.disagreements
                = agreement_result.total_comparable_cases
          /\ agreement_result.agreements * agreement_result.agreement_rate.den
                = agreement_result.agreement_rate.num
                     * agreement_result.total_comparable_cases

\* C27: in every result, total_comparable_cases is at most
\* total_isskin_predictions and at most total_doctor_predictions, also when
\* the ground truth of a row is missing.
C27_ComparableWithinTotals ==
   spc = "done" =>
      /\ agreement_result.total_comparable_cases
            <= agreement_result.total_isskin_predictions
      /\ agreement_result.total_comparable_cases
            <= agreement_result.total_doctor_predictions

----------------------------------------------------------------------------
(* Further claims about the normaliser, checked under SpecNormalize *)

\* C28: the normaliser is idempotent on its output vocabulary: whenever it
\* has returned one of the ten names (the nine categories and 'unknown'),
\* applying it to that name returns the name again, so that
\* normalize(normalize(t)) = normalize(t).
C28_IdempotentOnCategories ==
   (npc # "category" /\ \E i \in 1..Len(CategoryNames) : CategoryNames[i][1] = dx_category)
   => normalize_clinical_impression([kind |-> "str", text |-> CategoryText(dx_category)])
         = dx_category

\* Whether the cleaned text of the impression contains, as a substring, a
\* key of the table mapped to a category of the given set.
ClaimContainsTermOf(categories) ==
   LET cleaned == Strip(Lower(impression.text))
   IN  \E i \in 1..Len(clinical_to_dx_mapping) :
          /\ clinical_to_dx_mapping[i].dx \in categories
          /\ IsSubstring(clinical_to_dx_mapping[i].term, cleaned)

\* C29: an input string whose cleaned text contains a key of the table
\* mapped to melanoma, bcc, scc or ak is normalised to one of these four
\* categories and to 'malignant', never to a benign category or 'unknown',
\* also when it contains keys mapped to benign categories.
C29_MalignantTermsFirst ==
   (impression.kind = "str" /\ ClaimContainsTermOf({"melanoma", "bcc", "scc", "ak"}))
   => /\ npc # "category" => dx_category \in {"melanoma", "bcc", "scc", "ak"}
      /\ npc = "done" => binary_label = "malignant"

\* 'nevoMelanoma': the benign key 'nevo' comes first in the text, the
\* malignant key 'melanoma' after it, and the text is no key itself.
C29_Witness ==
   /\ npc = "done"
   /\ impression.kind = "str"
   /\ impression.text = <<"n","e","v","o","M","e","l","a","n","o","m","a">>
   /\ ClaimContainsTermOf({"melanoma", "bcc", "scc", "ak"})
   /\ ClaimContainsTermOf({"nevus"})
   /\ dx_category = "melanoma"
   /\ binary_label = "malignant"

----------------------------------------------------------------------------
(* A further claim about letterbox_image, checked under SpecLetterbox *)

\* C30: for every image with iw >= 1 and ih >= 1 and the target 640 x 640,
\* letterbox_image computes a content with nw >= 1 and nh >= 1 that fits in
\* the canvas (nw <= 640, nh <= 640) and touches it on at least one axis
\* (nw = 640 or nh = 640), so that both paste offsets are non-negative.
C30_ContentTouchesCanvas ==
   (lpc = "done" /\ image[1] >= 1 /\ image[2] >= 1 /\ size = <<YoloSide, YoloSide>>)
   => /\ new_image.status = "ok"
      /\ new_image.content[1] >= 1 /\ new_image.content[2] >= 1
      /\ new_image.content[1] <= YoloSide /\ new_image.content[2] <= YoloSide
      /\ new_image.content[1] = YoloSide \/ new_image.content[2] = YoloSide
      /\ new_image.offset[1] >= 0 /\ new_image.offset[2] >= 0

====
